---- MODULE Spec2Model ----
(***************************************************************************)
(* Model of manufacturing_dashboard.py: a Streamlit script that is re-run  *)
(* from top to bottom after every widget change.  The state is the value   *)
(* every widget currently holds plus what the last run rendered.           *)
(*                                                                         *)
(* Numbers.  The script's floats are modelled by exact rationals           *)
(*     s * n / (c * 100^e)                                                 *)
(* with s the sign, n and c naturals of arbitrary size (little-endian      *)
(* sequences of limbs in base 10000) and e >= 0.  Every slider value is a  *)
(* whole number of hundredths, so the values the script handles are exact  *)
(* in this form; the thresholds it compares against are never closer than  *)
(* 10^-3 to a value it can produce, far beyond double rounding.            *)
(***************************************************************************)
EXTENDS Integers, Sequences, FiniteSets

\* ------------------------------------------------------------ bounds
MaxN == 7            \* number_input n has no max_value; the model stops here
MaxMoved == 1        \* Model II sliders that are away from their default at once

\* ------------------------------------------------- natural numbers
\* one limb holds two pairs of decimal digits
Base == 100 * 100

RECURSIVE BOfInt(_)
BOfInt(k) == IF k = 0 THEN <<>> ELSE <<k % Base>> \o BOfInt(k \div Base)

RECURSIVE BTrim(_)
BTrim(x) ==
    IF x = <<>> THEN x
    ELSE IF x[Len(x)] = 0 THEN BTrim(SubSeq(x, 1, Len(x) - 1)) ELSE x

BRest(x) == IF x = <<>> THEN <<>> ELSE Tail(x)
BLow(x) == IF x = <<>> THEN 0 ELSE Head(x)

RECURSIVE BAddC(_, _, _)
BAddC(x, y, carry) ==
    IF x = <<>> /\ y = <<>>
    THEN (IF carry = 0 THEN <<>> ELSE <<carry>>)
    ELSE LET t == BLow(x) + BLow(y) + carry
         IN  <<t % Base>> \o BAddC(BRest(x), BRest(y), t \div Base)

BAdd(x, y) == BAddC(x, y, 0)

RECURSIVE BSubC(_, _, _)
BSubC(x, y, borrow) ==
    IF x = <<>> THEN <<>>
    ELSE LET t == Head(x) - BLow(y) - borrow
         IN  <<IF t < 0 THEN t + Base ELSE t>>
                 \o BSubC(Tail(x), BRest(y), IF t < 0 THEN 1 ELSE 0)

\* x - y for x >= y
BSub(x, y) == BTrim(BSubC(x, y, 0))

RECURSIVE BMulSmallC(_, _, _)
BMulSmallC(x, m, carry) ==
    IF x = <<>>
    THEN (IF carry = 0 THEN <<>> ELSE <<carry>>)
    ELSE LET t == Head(x) * m + carry
         IN  <<t % Base>> \o BMulSmallC(Tail(x), m, t \div Base)

\* x * m for 0 <= m < Base
BMulSmall(x, m) == IF m = 0 THEN <<>> ELSE BMulSmallC(x, m, 0)

BShift(x) == IF x = <<>> THEN <<>> ELSE <<0>> \o x

RECURSIVE BMulLong(_, _)
\* x * y, one limb of y at a time
BMulLong(x, y) ==
    IF y = <<>> THEN <<>>
    ELSE IF Len(y) = 1 THEN BMulSmall(x, y[1])
    ELSE BAdd(BMulSmall(x, Head(y)), BShift(BMulLong(x, Tail(y))))

BMul(x, y) ==
    IF x = <<>> \/ y = <<>> THEN <<>>
    ELSE IF y = <<1>> THEN x
    ELSE IF x = <<1>> THEN y
    ELSE IF Len(x) < Len(y) THEN BMulLong(y, x)
    ELSE BMulLong(x, y)

RECURSIVE BCmpAt(_, _, _)
BCmpAt(x, y, i) ==
    IF i = 0 THEN 0
    ELSE IF x[i] > y[i] THEN 1
    ELSE IF x[i] < y[i] THEN -1
    ELSE BCmpAt(x, y, i - 1)

\* -1, 0, 1 as x < y, x = y, x > y
BCmp(x, y) ==
    IF Len(x) > Len(y) THEN 1
    ELSE IF Len(x) < Len(y) THEN -1
    ELSE BCmpAt(x, y, Len(x))

\* x * 100^e
RECURSIVE B100(_, _)
B100(x, e) ==
    IF e = 0 THEN x
    ELSE IF e >= 2 THEN B100(BShift(x), e - 2)
    ELSE BMulSmall(x, 100)

\* ------------------------------------------------------- rationals
QMake(s, n, c, e) == [s |-> IF n = <<>> THEN 1 ELSE s, n |-> n, c |-> c, e |-> e]

QInt(k) == QMake(IF k < 0 THEN -1 ELSE 1, BOfInt(IF k < 0 THEN -k ELSE k), <<1>>, 0)

\* h hundredths: the float literal h/100
QPct(h) == QMake(1, BOfInt(h), <<1>>, 1)

\* a / b for integers a >= 0, b > 0
QFrac(a, b) == QMake(1, BOfInt(a), BOfInt(b), 0)

QNeg(a) == QMake(-a.s, a.n, a.c, a.e)

QMul(a, b) == QMake(a.s * b.s, BMul(a.n, b.n), BMul(a.c, b.c), a.e + b.e)

QAdd(a, b) ==
    LET same == a.c = b.c
        c  == IF same THEN a.c ELSE BMul(a.c, b.c)
        e  == IF a.e > b.e THEN a.e ELSE b.e
        an == B100(IF same THEN a.n ELSE BMul(a.n, b.c), e - a.e)
        bn == B100(IF same THEN b.n ELSE BMul(b.n, a.c), e - b.e)
    IN  IF a.s = b.s THEN QMake(a.s, BAdd(an, bn), c, e)
        ELSE IF BCmp(an, bn) >= 0 THEN QMake(a.s, BSub(an, bn), c, e)
        ELSE QMake(b.s, BSub(bn, an), c, e)

QSub(a, b) == QAdd(a, QNeg(b))

\* a / b for b # 0
QDiv(a, b) ==
    LET n == BMul(a.n, b.c)
        c == BMul(a.c, b.n)
    IN  IF a.e >= b.e THEN QMake(a.s * b.s, n, c, a.e - b.e)
        ELSE QMake(a.s * b.s, B100(n, b.e - a.e), c, 0)

RECURSIVE QPow(_, _)
QPow(a, k) == IF k = 0 THEN QInt(1) ELSE QMul(a, QPow(a, k - 1))

\* -1, 0, 1 as a < b, a = b, a > b
QCmp(a, b) ==
    LET same == a.c = b.c
        e  == IF a.e > b.e THEN a.e ELSE b.e
        an == B100(IF same THEN a.n ELSE BMul(a.n, b.c), e - a.e)
        bn == B100(IF same THEN b.n ELSE BMul(b.n, a.c), e - b.e)
    IN  IF a.s # b.s THEN (IF a.s > b.s THEN 1 ELSE -1)
        ELSE a.s * BCmp(an, bn)

QEq(a, b) == QCmp(a, b) = 0
QLt(a, b) == QCmp(a, b) < 0
QLe(a, b) == QCmp(a, b) <= 0
QGt(a, b) == QCmp(a, b) > 0

\* a >= 0 and a > 0, read off the sign
QNonNeg(a) == a.s = 1
QPos(a) == a.s = 1 /\ a.n # <<>>

\* ------------------------------------------------- the script's state
VARIABLES
    model_type,          \* sidebar selectbox, line 21
    demand,              \* number_input d, line 28
    n_machines,          \* number_input n, line 29
    r_machine,           \* number_input r, line 33 (0: the run raised before it)
    k_machines,          \* number_input k, line 34 (0 when the run raised)
    p_common,            \* Model I slider, hundredths, line 61
    p_i,                 \* Model II sliders keyed p1..pn, hundredths, line 74
    status,              \* "rendered": the run reached the footer; "error": it raised
    rework_start,        \* the index shown by the metric of line 53
    system_reliability,  \* lines 89-95
    availability,        \* line 107
    recommendation       \* the branch of lines 162-173 that was shown

vars == <<model_type, demand, n_machines, r_machine, k_machines, p_common, p_i,
          status, rework_start, system_reliability, availability, recommendation>>

ModelI == "Model I"
ModelII == "Model II"

\* what the bounded user types or drags
Demands == {1, 150}
PCommonChoices == {1, 50, 95, 100}
PiChoices == {50, 90, 100}

DemandDefault == 150
NDefault == 5
RDefault == 4
KDefault == 1
PCommonDefault == 95
PiDefault == 90

\* a widget that was not drawn in the last run, or whose arguments changed,
\* is a new widget and starts from its value= argument
NoState == -1

\* variant: a number_input that does not validate the value against its range
NumberInputUnchecked(held, lo, hi, default) ==
    [ok |-> TRUE, v |-> IF held = NoState THEN default ELSE held]

\* st.number_input(min_value=lo, max_value=hi, value=default), lines 33 and 34:
\* the value the call returns; ok is FALSE when the call raises because the
\* value it would hold is outside lo..hi (the default 4 of r when n < 4)
number_input(held, lo, hi, default) ==
    LET v == IF held = NoState THEN default ELSE held
    IN  [ok |-> lo <= v /\ v <= hi, v |-> v]

\* ----------------------------------------------------- tab3 and tab4
\* variant: the failure rate with its sign flipped, p - 1
FailureRateNegated(p) == QSub(p, QInt(1))

\* q = 1 - p, lines 63 and 79
FailureRate(p) == QSub(QInt(1), p)

RECURSIVE Prod(_, _, _)
\* prod_{l=a}^{b} p_l, empty when a > b
Prod(pv, a, b) == IF a > b THEN QInt(1) ELSE QMul(QPct(pv[b]), Prod(pv, a, b - 1))

\* variant: the reliability computed from the failure rates instead of the
\* success rates
RECURSIVE ProdOfFailureRates(_, _)
ProdOfFailureRates(pv, b) ==
    IF b = 0 THEN QInt(1)
    ELSE QMul(FailureRate(QPct(pv[b])), ProdOfFailureRates(pv, b - 1))

SystemReliabilityOfFailureRates(mt, n, pc, pv) ==
    IF mt = ModelI
    THEN QPow(FailureRate(QPct(pc)), n)
    ELSE ProdOfFailureRates(pv, n)

\* lines 89-95: both branches raise the literal 0.95 to the n; the sliders'
\* values pc and pv are in scope and are not read
SystemReliability(mt, n, pc, pv) ==
    IF mt = ModelI
    THEN LET p == QPct(95) IN QPow(p, n)
    ELSE LET p_avg == QPct(95) IN QPow(p_avg, n)

\* variant: the rework term one factor p short, p^n + p^(n+k-1) q
ModelI_DenominatorShort(n, k, p) ==
    QAdd(QPow(p, n), QMul(QPow(p, n + k - 1), FailureRate(p)))

\* tab4, Model I, line 131: p^n + p^(n+k) q
ModelI_Denominator(n, k, p) ==
    QAdd(QPow(p, n), QMul(QPow(p, n + k), FailureRate(p)))

\* line 131: I = d / (p^n + p^(n+k) q)
ModelI_I(d, n, k, p) == QDiv(QInt(d), ModelI_Denominator(n, k, p))

\* line 134: f_i^(G) = I p^(i-1)
ModelI_fG(I, i, p) == QMul(I, QPow(p, i - 1))

\* line 135: f_i^(R) = I p^(i+k-1) q, written for every i
ModelI_fR(I, i, k, p) == QMul(QMul(I, QPow(p, i + k - 1)), FailureRate(p))

\* tab4, Model II, line 146: prod_1^n p_i + prod_1^(r-1) p_i q_r prod_(r-k)^n p_i
ModelII_Denominator(n, r, k, pv) ==
    QAdd(Prod(pv, 1, n),
         QMul(QMul(Prod(pv, 1, r - 1), FailureRate(QPct(pv[r]))), Prod(pv, r - k, n)))

\* line 146
ModelII_I(d, n, r, k, pv) == QDiv(QInt(d), ModelII_Denominator(n, r, k, pv))

\* line 149: f_i^(G) = I prod_1^(i-1) p_l
ModelII_fG(I, i, pv) == QMul(I, Prod(pv, 1, i - 1))

\* variant: the last product taken through machine i instead of i - 1
ModelII_fRThroughI(I, i, r, k, pv) ==
    QMul(QMul(QMul(I, Prod(pv, 1, r - 1)), FailureRate(QPct(pv[r]))), Prod(pv, r - k, i))

\* line 150: f_i^(R) = I prod_1^(r-1) p_l q_r prod_(r-k)^(i-1) p_l, written for every i
ModelII_fR(I, i, r, k, pv) ==
    QMul(QMul(QMul(I, Prod(pv, 1, r - 1)), FailureRate(QPct(pv[r]))), Prod(pv, r - k, i - 1))

\* lines 137 and 152: l_i = f_i^(G) + f_i^(R)
TotalLoad(fG, fR) == QAdd(fG, fR)

\* line 107
Availability(R) ==
    IF QGt(R, QPct(90)) THEN "high"
    ELSE IF QGt(R, QPct(70)) THEN "medium"
    ELSE "low"

\* variant: the middle branch taken above 0.8 instead of above 0.7
RecommendationAt80(R) ==
    IF QGt(R, QPct(90)) THEN "success"
    ELSE IF QGt(R, QPct(80)) THEN "warning"
    ELSE "error"

\* lines 162-173: st.success / st.warning / st.error
Recommendation(R) ==
    IF QGt(R, QPct(90)) THEN "success"
    ELSE IF QGt(R, QPct(70)) THEN "warning"
    ELSE "error"

\* ------------------------------------------------------- one script run
\* The script from line 21 to line 177 with the widget values the session
\* holds: heldR and heldK are NoState for a widget that is new in this run.
Rerun(mt, d, n, heldR, heldK, pc, pv) ==
    LET r == number_input(heldR, 2, n, RDefault)
        k == number_input(heldK, 0, r.v - 1, KDefault)
    IN  /\ model_type' = mt
        /\ demand' = d
        /\ n_machines' = n
        /\ IF r.ok /\ k.ok
           THEN \E R \in {SystemReliability(mt, n, pc, pv)} :
                    /\ r_machine' = r.v
                    /\ k_machines' = k.v
                    /\ p_common' = pc
                    /\ p_i' = pv
                    /\ status' = "rendered"
                    /\ rework_start' = r.v - k.v
                    /\ system_reliability' = R
                    /\ availability' = Availability(R)
                    /\ recommendation' = Recommendation(R)
           ELSE \* line 33 or 34 raised: nothing below it ran, and the widgets
                \* that were not drawn lose their state
                /\ r_machine' = 0
                /\ k_machines' = 0
                /\ p_common' = PCommonDefault
                /\ p_i' = <<>>
                /\ status' = "error"
                /\ rework_start' = 0
                /\ system_reliability' = QInt(0)
                /\ availability' = "none"
                /\ recommendation' = "none"

\* the p sliders of a run of model mt with n machines: the keyed sliders that
\* were drawn last time keep their value, the others start at 0.9
Sliders(mt, n) ==
    IF mt = ModelI THEN <<>>
    ELSE [i \in 1..n |-> IF i <= Len(p_i) THEN p_i[i] ELSE PiDefault]

HeldR == IF status = "rendered" THEN r_machine ELSE NoState
HeldK == IF status = "rendered" THEN k_machines ELSE NoState

Init ==
    /\ model_type = ModelI
    /\ demand = DemandDefault
    /\ n_machines = NDefault
    /\ r_machine = RDefault
    /\ k_machines = KDefault
    /\ p_common = PCommonDefault
    /\ p_i = <<>>
    /\ status = "rendered"
    /\ rework_start = RDefault - KDefault
    /\ system_reliability = SystemReliability(ModelI, NDefault, PCommonDefault, <<>>)
    /\ availability = Availability(system_reliability)
    /\ recommendation = Recommendation(system_reliability)

\* the selectbox of line 21; the other model's sliders are not drawn any more
SelectModel ==
    \E mt \in {ModelI, ModelII} :
        /\ mt # model_type
        /\ Rerun(mt, demand, n_machines, HeldR, HeldK, PCommonDefault,
                 Sliders(mt, n_machines))

\* line 28
SetDemand ==
    \E d \in Demands :
        /\ d # demand
        /\ Rerun(model_type, d, n_machines, HeldR, HeldK, p_common,
                 Sliders(model_type, n_machines))

\* line 29: max_value of the r widget changes with n, so the r widget is new;
\* the k widget is new when its own max_value r - 1 changed
SetN ==
    \E n \in 1..MaxN :
        /\ n # n_machines
        /\ Rerun(model_type, demand, n, NoState,
                 IF status = "rendered" /\ r_machine = RDefault THEN k_machines ELSE NoState,
                 p_common, Sliders(model_type, n))

\* line 33: the widget offers min_value..max_value
SetR ==
    /\ status = "rendered"
    /\ \E r \in 2..n_machines :
        /\ r # r_machine
        /\ Rerun(model_type, demand, n_machines, r, NoState, p_common, p_i)

\* line 34
SetK ==
    /\ status = "rendered"
    /\ \E k \in 0..(r_machine - 1) :
        /\ k # k_machines
        /\ Rerun(model_type, demand, n_machines, r_machine, k, p_common, p_i)

\* line 61
SetPCommon ==
    /\ status = "rendered"
    /\ model_type = ModelI
    /\ \E v \in PCommonChoices :
        /\ v # p_common
        /\ Rerun(model_type, demand, n_machines, r_machine, k_machines, v, p_i)

\* line 74
SetPi ==
    /\ status = "rendered"
    /\ model_type = ModelII
    /\ \E i \in 1..n_machines, v \in PiChoices :
        /\ v # p_i[i]
        /\ Cardinality({j \in 1..n_machines : j # i /\ p_i[j] # PiDefault})
              + (IF v # PiDefault THEN 1 ELSE 0) <= MaxMoved
        /\ Rerun(model_type, demand, n_machines, r_machine, k_machines, p_common,
                 [p_i EXCEPT ![i] = v])

Next ==
    \/ SelectModel
    \/ SetDemand
    \/ SetN
    \/ SetR
    \/ SetK
    \/ SetPCommon
    \/ SetPi

Spec == Init /\ [][Next]_vars

\* --------------------------------------- the formulas tab4 shows, applied
\* to the configuration of the current run
Rendered == status = "rendered"

UniformVector(n, h) == [i \in 1..n |-> h]

CurI ==
    IF model_type = ModelI
    THEN ModelI_I(demand, n_machines, k_machines, QPct(p_common))
    ELSE ModelII_I(demand, n_machines, r_machine, k_machines, p_i)

CurDenominator ==
    IF model_type = ModelI
    THEN ModelI_Denominator(n_machines, k_machines, QPct(p_common))
    ELSE ModelII_Denominator(n_machines, r_machine, k_machines, p_i)

Cur_fG(I, i) ==
    IF model_type = ModelI THEN ModelI_fG(I, i, QPct(p_common))
    ELSE ModelII_fG(I, i, p_i)

Cur_fR(I, i) ==
    IF model_type = ModelI THEN ModelI_fR(I, i, k_machines, QPct(p_common))
    ELSE ModelII_fR(I, i, r_machine, k_machines, p_i)

CurP(i) == IF model_type = ModelI THEN QPct(p_common) ELSE QPct(p_i[i])

\* ------------------------------------------------------------- claims

\* C1: the reliability the run displays is the product of the configured
\* success probabilities: p_common^n under Model I, the product of the n
\* sliders p_1..p_n under Model II.
C1_FallbackIsProductOfConfigured ==
    Rendered =>
        QEq(system_reliability,
            IF model_type = ModelI
            THEN QPow(QPct(p_common), n_machines)
            ELSE Prod(p_i, 1, n_machines))

\* C2: the scenario n=5, r=4, k=1, d=150, uniform p=0.95
C2_Scenario ==
    /\ Rendered
    /\ model_type = ModelI
    /\ n_machines = 5 /\ r_machine = 4 /\ k_machines = 1
    /\ demand = 150 /\ p_common = 95

\* |a - b| <= tol
QWithin(a, b, tol) == QLe(QSub(a, b), tol) /\ QLe(QSub(b, a), tol)

\* C2 as stated: in the scenario the denominator of I is
\* 0.95^5 + 0.95^3 * 0.05 * 0.95^2 (to 1e-6) and I is 184.7 (to the digit
\* given), for the formula of either model.
C2_ScenarioAsStated ==
    C2_Scenario =>
        \A stated \in {QAdd(QPow(QPct(95), 5),
                            QMul(QMul(QPow(QPct(95), 3), QPct(5)), QPow(QPct(95), 2)))} :
        \A D \in {ModelI_Denominator(5, 1, QPct(95)),
                  ModelII_Denominator(5, 4, 1, UniformVector(5, 95))} :
        \A I \in {ModelI_I(150, 5, 1, QPct(95)),
                  ModelII_I(150, 5, 4, 1, UniformVector(5, 95))} :
            /\ QWithin(D, stated, QFrac(1, 1000000))
            /\ QWithin(I, QFrac(1847, 10), QFrac(5, 100))

\* C2 amended: in the scenario the denominator of I is exactly
\* 0.95^5 + 0.95^3 * 0.05 * 0.95^3 = 0.81053553203125 and I = 150 / that,
\* which is 185.06 to two decimals, for the formula of either model.
C2_ScenarioArithmetic ==
    C2_Scenario =>
        \A exact \in {QAdd(QPow(QPct(95), 5),
                           QMul(QMul(QPow(QPct(95), 3), QPct(5)), QPow(QPct(95), 3)))} :
        \A D \in {ModelI_Denominator(n_machines, k_machines, QPct(p_common)),
                  ModelII_Denominator(n_machines, r_machine, k_machines,
                                      UniformVector(n_machines, p_common))} :
        \A I \in {ModelI_I(demand, n_machines, k_machines, QPct(p_common)),
                  ModelII_I(demand, n_machines, r_machine, k_machines,
                            UniformVector(n_machines, p_common))} :
            /\ QEq(D, exact)
            /\ QWithin(D, QFrac(8105, 10000), QFrac(5, 100000))
            /\ QEq(QMul(I, exact), QInt(150))
            /\ QWithin(I, QFrac(18506, 100), QFrac(5, 1000))

C2_Witness == C2_Scenario /\ availability = "medium"

\* C3: the rework flow shown for the current model is 0 at every machine
\* before the re-entry point r - k.
C3_NoReworkFlowBeforeReentry ==
    Rendered =>
        \A I \in {CurI} :
        \A i \in 1..(r_machine - k_machines - 1) :
            QEq(Cur_fR(I, i), QInt(0))

\* C4: Model I with rate p gives the same I, f_G, f_R, l at every machine and
\* the same reliability as Model II with the constant vector p.
C4_UniformEqualsHeterogeneousConstant ==
    (Rendered /\ model_type = ModelI) =>
        \A pv \in {UniformVector(n_machines, p_common)} :
        \A I1 \in {ModelI_I(demand, n_machines, k_machines, QPct(p_common))} :
        \A I2 \in {ModelII_I(demand, n_machines, r_machine, k_machines, pv)} :
            /\ QEq(I1, I2)
            /\ QEq(SystemReliability(ModelI, n_machines, p_common, <<>>),
                   SystemReliability(ModelII, n_machines, PCommonDefault, pv))
            /\ \A i \in 1..n_machines :
                \A g1 \in {ModelI_fG(I1, i, QPct(p_common))} :
                \A g2 \in {ModelII_fG(I2, i, pv)} :
                \A r1 \in {ModelI_fR(I1, i, k_machines, QPct(p_common))} :
                \A r2 \in {ModelII_fR(I2, i, r_machine, k_machines, pv)} :
                    /\ QEq(g1, g2)
                    /\ QEq(r1, r2)
                    /\ QEq(TotalLoad(g1, r1), TotalLoad(g2, r2))

\* C5: in every rendered configuration the reliability is in [0, 1], I > 0,
\* and f_G[i], f_R[i], l[i] >= 0 at every machine.
C5_RangesHold ==
    Rendered =>
        /\ QNonNeg(system_reliability)
        /\ QLe(system_reliability, QInt(1))
        /\ \A I \in {CurI} :
            /\ QPos(I)
            /\ \A i \in 1..n_machines :
                \A g \in {Cur_fG(I, i)} :
                \A f \in {Cur_fR(I, i)} :
                    /\ QNonNeg(g)
                    /\ QNonNeg(f)
                    /\ QNonNeg(TotalLoad(g, f))

C5_Witness ==
    /\ Rendered
    /\ model_type = ModelII
    /\ k_machines >= 1
    /\ r_machine < n_machines
    /\ \E i \in 1..n_machines : p_i[i] = 50

\* one slider was raised and nothing else changed
OnePRaised ==
    /\ Rendered /\ Rendered'
    /\ model_type' = model_type /\ demand' = demand /\ n_machines' = n_machines
    /\ r_machine' = r_machine /\ k_machines' = k_machines
    /\ \/ /\ model_type = ModelI
          /\ p_common' > p_common
       \/ /\ model_type = ModelII
          /\ \E i \in 1..n_machines :
                /\ p_i'[i] > p_i[i]
                /\ \A j \in 1..n_machines : j # i => p_i'[j] = p_i[j]

\* C6: a run that differs from the last one only in one success probability
\* being larger (under Model I the one slider is every machine's) displays a
\* reliability that is not smaller.
C6_Monotone ==
    [][OnePRaised => QLe(system_reliability, system_reliability')]_vars

C6_Witness ==
    /\ Rendered
    /\ model_type = ModelII
    /\ \E i \in 1..n_machines : p_i[i] = 100

\* C8: the level is decided by the strict thresholds 0.9 and 0.7, exactly one
\* level applies, and the availability label and the recommendation branch
\* name the same level.
C8_LevelsAgree ==
    Rendered =>
        /\ (availability = "high") = QGt(system_reliability, QPct(90))
        /\ (availability = "medium") =
              (QGt(system_reliability, QPct(70)) /\ QLe(system_reliability, QPct(90)))
        /\ (availability = "low") = QLe(system_reliability, QPct(70))
        /\ availability \in {"high", "medium", "low"}
        /\ (availability = "high") = (recommendation = "success")
        /\ (availability = "medium") = (recommendation = "warning")
        /\ (availability = "low") = (recommendation = "error")

C8_Witness == Rendered /\ availability = "low" /\ recommendation = "error"

\* C9: every run that renders results has 2 <= r <= n and 0 <= k <= r - 1,
\* so the rework start it shows satisfies 1 <= r - k <= r <= n.
C9_RenderedWithinBounds ==
    Rendered =>
        /\ 2 <= r_machine /\ r_machine <= n_machines
        /\ 0 <= k_machines /\ k_machines <= r_machine - 1
        /\ rework_start = r_machine - k_machines
        /\ 1 <= rework_start /\ rework_start <= r_machine

\* n was lowered below its default and r and k were then set to their largest
C9_Witness ==
    /\ Rendered
    /\ n_machines < NDefault
    /\ r_machine = n_machines
    /\ k_machines = r_machine - 1

\* C10: the good output of the last machine is the demand,
\* l[n] p[n] = (f_G[n] + f_R[n]) p[n] = d, the denominator of I is at most 1
\* and I >= d.
C10_FlowConservation ==
    Rendered =>
        \A I \in {CurI} :
        \A l \in {TotalLoad(Cur_fG(I, n_machines), Cur_fR(I, n_machines))} :
            /\ QEq(QMul(l, CurP(n_machines)), QInt(demand))
            /\ QLe(CurDenominator, QInt(1))
            /\ QLe(QInt(demand), I)

C10_Witness ==
    /\ Rendered
    /\ model_type = ModelII
    /\ k_machines >= 1
    /\ \E i \in 1..n_machines : p_i[i] = 50 /\ i >= r_machine - k_machines
====
